---- MODULE Spec2Model ----
(***************************************************************************)
(* EVE-Overview: profile store (config_manager.py), hotkey registry        *)
(* (hotkey_manager.py), preview panel (preview_frame.py) and application   *)
(* controller (main_window.py) as state machines.                          *)
(*                                                                         *)
(* Python objects are records with a "cls" field; JSON documents are       *)
(* functions from keys to values (no "cls"); strings that the code takes   *)
(* apart (key combos, names that are sorted) are sequences of characters.  *)
(* Scale factors are in hundredths (0.3 is 30).                            *)
(***************************************************************************)
EXTENDS Integers, Sequences, FiniteSets, TLC

VARIABLES
    files,          \* profiles_dir: profile name -> file content
    config,         \* ConfigManager.config (in memory)
    config_file,    \* config.json on disk
    hotkeys,        \* HotkeyManager.hotkeys: name -> {combo, callback}, in insertion order
    listener,       \* HotkeyManager.listener and the hotkey_map it was built with
    frames,         \* the PreviewFrame objects that exist: slot -> object or None
    main_window,    \* the MainWindow object (None: no controller constructed)
    call            \* the last completed call: operation, arguments, result

storeVars == <<files, config, config_file>>
hotkeyVars == <<hotkeys, listener>>
panelVars == <<frames, main_window>>
vars == <<files, config, config_file, hotkeys, listener, frames, main_window, call>>

(***************************************************************************)
(* Characters and strings                                                  *)
(***************************************************************************)
\* The characters used, in code-point order (Python compares str by code point).
AsciiChars ==
    << " ", "+", "0", "1", "2", "3", "4", "5", "6", "7", "8", "9", "<", ">",
       "A", "B", "C", "D", "E", "F", "G", "H", "I", "J", "K", "L", "M",
       "N", "O", "P", "Q", "R", "S", "T", "U", "V", "W", "X", "Y", "Z",
       "a", "b", "c", "d", "e", "f", "g", "h", "i", "j", "k", "l", "m",
       "n", "o", "p", "q", "r", "s", "t", "u", "v", "w", "x", "y", "z" >>

Ord(c) == CHOOSE i \in 1..Len(AsciiChars) : AsciiChars[i] = c

IsUpper(c) == Ord(c) >= Ord("A") /\ Ord(c) <= Ord("Z")
IsLower(c) == Ord(c) >= Ord("a") /\ Ord(c) <= Ord("z")
IsDigit(c) == Ord(c) >= Ord("0") /\ Ord(c) <= Ord("9")

\* str.lower() / str.upper() on one character
LowerChar(c) == IF IsUpper(c) THEN AsciiChars[Ord(c) - Ord("A") + Ord("a")] ELSE c
UpperChar(c) == IF IsLower(c) THEN AsciiChars[Ord(c) - Ord("a") + Ord("A")] ELSE c

\* s < t for str: lexicographic by code point, a proper prefix is smaller
RECURSIVE StrLess(_, _)
StrLess(s, t) ==
    IF t = <<>> THEN FALSE
    ELSE IF s = <<>> THEN TRUE
    ELSE IF Head(s) # Head(t) THEN Ord(Head(s)) < Ord(Head(t))
    ELSE StrLess(Tail(s), Tail(t))

(***************************************************************************)
(* Profile store: config_manager.py                                        *)
(***************************************************************************)
\* The profile names of the model, with their characters.
NameChars ==
    [ Alpha   |-> <<"A", "l", "p", "h", "a">>,
      Default |-> <<"D", "e", "f", "a", "u", "l", "t">>,
      beta    |-> <<"b", "e", "t", "a">> ]

ProfileNames == DOMAIN NameChars

NameLess(a, b) == StrLess(NameChars[a], NameChars[b])

None == [cls |-> "NoneType"]

\* @dataclass WindowConfig
WindowConfig(window_id, window_title, x, y, width, height, scale, hotkey, enabled) ==
    [ cls |-> "WindowConfig", window_id |-> window_id, window_title |-> window_title,
      x |-> x, y |-> y, width |-> width, height |-> height,
      scale |-> scale, hotkey |-> hotkey, enabled |-> enabled ]

WindowConfigKeys ==
    {"window_id", "window_title", "x", "y", "width", "height", "scale", "hotkey", "enabled"}
WindowConfigRequired == {"window_id", "window_title", "x", "y", "width", "height"}

\* @dataclass Profile
Profile(name, windows, refresh_rate, always_on_top, click_through) ==
    [ cls |-> "Profile", name |-> name, windows |-> windows,
      refresh_rate |-> refresh_rate, always_on_top |-> always_on_top,
      click_through |-> click_through ]

\* Profile(name=..., windows=[]) with the dataclass defaults
NewProfile(name) == Profile(name, <<>>, 30, TRUE, FALSE)

\* dict.get(key, default)
Get(d, key, default) == IF key \in DOMAIN d THEN d[key] ELSE default

\* d[key] = value
DictSet(d, key, value) ==
    [k \in DOMAIN d \cup {key} |-> IF k = key THEN value ELSE d[k]]

\* dataclasses.asdict(w)
asdict(w) == [k \in WindowConfigKeys |-> w[k]]

\* WindowConfig(**w): raises TypeError on an unknown or a missing required key
KwargsOk(w) == DOMAIN w \subseteq WindowConfigKeys /\ WindowConfigRequired \subseteq DOMAIN w

FromKwargs(w) ==
    WindowConfig(w["window_id"], w["window_title"], w["x"], w["y"], w["width"],
                 w["height"], Get(w, "scale", 30), Get(w, "hotkey", <<>>),
                 Get(w, "enabled", TRUE))

to_dict(p) ==
    [ name |-> p.name,
      windows |-> [i \in 1..Len(p.windows) |-> asdict(p.windows[i])],
      refresh_rate |-> p.refresh_rate,
      always_on_top |-> p.always_on_top,
      click_through |-> p.click_through ]

\* from_dict that never reads click_through
from_dict_ignoring_click_through(data) ==
    LET ws == Get(data, "windows", <<>>) IN
    IF \E i \in 1..Len(ws) : ~KwargsOk(ws[i]) THEN None
    ELSE Profile(Get(data, "name", "Default"),
                 [i \in 1..Len(ws) |-> FromKwargs(ws[i])],
                 Get(data, "refresh_rate", 30),
                 Get(data, "always_on_top", TRUE),
                 FALSE)

\* Profile.from_dict(data); None stands for the exception it raises
from_dict(data) ==
    LET ws == Get(data, "windows", <<>>) IN
    IF \E i \in 1..Len(ws) : ~KwargsOk(ws[i]) THEN None
    ELSE Profile(Get(data, "name", "Default"),
                 [i \in 1..Len(ws) |-> FromKwargs(ws[i])],
                 Get(data, "refresh_rate", 30),
                 Get(data, "always_on_top", TRUE),
                 Get(data, "click_through", FALSE))

\* File contents
Missing == [kind |-> "missing"]
Malformed == [kind |-> "malformed"]
Json(data) == [kind |-> "json", data |-> data]

\* get_profile_path(profile_name): the file is named by the profile name
get_profile_path(profile_name) == profile_name

\* load_profile(profile_name) on the directory fs
load_profile(fs, profile_name) ==
    LET f == fs[get_profile_path(profile_name)] IN
    IF f.kind = "missing" THEN None
    ELSE IF f.kind = "malformed" THEN None
    ELSE from_dict(f.data)

\* What open(path, 'w') and json.dump can do: write the document, fail to open
\* (file untouched), or fail after the file was truncated.
IoOutcomes == {"ok", "open_failed", "write_failed"}

WriteFile(old, data, io) ==
    IF io = "ok" THEN Json(data)
    ELSE IF io = "open_failed" THEN old
    ELSE Malformed

\* save_profile(profile): the new directory and the value returned
save_profile(fs, profile, io) ==
    LET path == get_profile_path(profile.name) IN
    [ files |-> [fs EXCEPT ![path] = WriteFile(fs[path], to_dict(profile), io)],
      ret |-> (io = "ok") ]

\* delete_profile without the test for 'Default'
delete_profile_unguarded(fs, profile_name, io) ==
    LET path == get_profile_path(profile_name) IN
    IF fs[path].kind # "missing" /\ io = "ok"
    THEN [files |-> [fs EXCEPT ![path] = Missing], ret |-> TRUE]
    ELSE [files |-> fs, ret |-> FALSE]

\* delete_profile(profile_name); io = "ok" unless unlink raises
delete_profile(fs, profile_name, io) ==
    IF profile_name = "Default" THEN [files |-> fs, ret |-> FALSE]
    ELSE LET path == get_profile_path(profile_name) IN
         IF fs[path].kind # "missing" /\ io = "ok"
         THEN [files |-> [fs EXCEPT ![path] = Missing], ret |-> TRUE]
         ELSE [files |-> fs, ret |-> FALSE]

\* The stems glob('*.json') can yield: the existing files, in any order
Stored(fs) == {n \in DOMAIN fs : fs[n].kind # "missing"}

GlobOrders(fs) ==
    {s \in [1..Cardinality(Stored(fs)) -> Stored(fs)] :
        \A i, j \in DOMAIN s : i # j => s[i] # s[j]}

\* list.insert(0, x)
Insert0(s, x) == <<x>> \o s

\* sorted(list of str): insertion into an ordered result
RECURSIVE InsertSorted(_, _)
InsertSorted(s, x) ==
    IF s = <<>> THEN <<x>>
    ELSE IF NameLess(x, Head(s)) THEN <<x>> \o s
    ELSE <<Head(s)>> \o InsertSorted(Tail(s), x)

RECURSIVE sorted(_)
sorted(s) == IF s = <<>> THEN <<>> ELSE InsertSorted(sorted(Tail(s)), Head(s))

Range(s) == {s[i] : i \in DOMAIN s}

\* list_profiles that returns the list as built
list_profiles_unsorted(globbed) ==
    IF "Default" \notin Range(globbed) THEN Insert0(globbed, "Default") ELSE globbed

\* list_profiles(), glob yielding the stems in the order `globbed`
list_profiles(globbed) ==
    LET profiles == IF "Default" \notin Range(globbed)
                    THEN Insert0(globbed, "Default") ELSE globbed
    IN sorted(profiles)

\* get_current_profile that does not save the profile it makes up
get_current_profile_unsaved(fs, cfg, io) ==
    LET profile == load_profile(fs, Get(cfg, "current_profile", "Default")) IN
    [ret |-> IF profile = None THEN NewProfile("Default") ELSE profile, files |-> fs]

\* get_current_profile(): the profile returned and the new directory
get_current_profile(fs, cfg, io) ==
    LET profile_name == Get(cfg, "current_profile", "Default")
        profile == load_profile(fs, profile_name)
    IN IF profile = None
       THEN [ ret |-> NewProfile("Default"),
              files |-> save_profile(fs, NewProfile("Default"), io).files ]
       ELSE [ret |-> profile, files |-> fs]

\* _load_config(): the document of config.json, or the default configuration
DefaultConfig ==
    [ current_profile |-> "Default", last_profile |-> "Default",
      window_geometry |-> "null", theme |-> "dark" ]

_load_config(cf) == IF cf.kind = "json" THEN cf.data ELSE DefaultConfig

\* set_setting / set_current_profile: config[key] = value; _save_config()
set_setting(cfg, cf, key, value, io) ==
    LET c == DictSet(cfg, key, value) IN
    [config |-> c, config_file |-> WriteFile(cf, c, io)]

(***************************************************************************)
(* Hotkey registry: hotkey_manager.py                                      *)
(***************************************************************************)
\* A Python dict keeps insertion order: a sequence of [key, value] items.
DictKeys(d) == {d[i].key : i \in DOMAIN d}
DictIndex(d, k) == CHOOSE i \in DOMAIN d : d[i].key = k
DictValue(d, k) == d[DictIndex(d, k)].value

\* d[k] = v: an existing key keeps its place, a new key goes last
DictAssign(d, k, v) ==
    IF k \in DictKeys(d)
    THEN [d EXCEPT ![DictIndex(d, k)] = [key |-> k, value |-> v]]
    ELSE Append(d, [key |-> k, value |-> v])

\* del d[k]
DictDelete(d, k) ==
    LET i == DictIndex(d, k) IN
    [j \in 1..(Len(d) - 1) |-> IF j < i THEN d[j] ELSE d[j + 1]]

NoListener == [state |-> "none", map |-> <<>>]
StoppedListener == [state |-> "stopped", map |-> <<>>]
RunningListener(hotkey_map) == [state |-> "running", map |-> hotkey_map]

\* What keyboard.GlobalHotKeys(hotkey_map) followed by start() can do
StartOutcomes == {"started", "constructor_raised", "start_raised"}

\* The loop of _restart_listener as it would be with wrappers that read the
\* loop variables when they run: every wrapper has the callback and the name
\* of the last binding
RECURSIVE late_binding_map(_, _)
late_binding_map(hks, n) ==
    IF n = 0 THEN <<>>
    ELSE DictAssign(late_binding_map(hks, n - 1), hks[n].value.combo,
                    [ cb |-> hks[Len(hks)].value.callback,
                      hk_name |-> hks[Len(hks)].key ])

build_hotkey_map_late_binding(hks) == late_binding_map(hks, Len(hks))

\* The loop of _restart_listener: hotkey_map[combo] = make_callback()
RECURSIVE build_hotkey_map(_)
build_hotkey_map(hks) ==
    IF hks = <<>> THEN <<>>
    ELSE DictAssign(build_hotkey_map(SubSeq(hks, 1, Len(hks) - 1)),
                    hks[Len(hks)].value.combo,
                    [ cb |-> hks[Len(hks)].value.callback,
                      hk_name |-> hks[Len(hks)].key ])

\* _restart_listener(): the new value of self.listener
_restart_listener(hks, lst, outcome) ==
    LET stopped == IF lst.state = "none" THEN NoListener ELSE StoppedListener IN
    IF hks = <<>> THEN stopped
    ELSE IF outcome = "started" THEN RunningListener(build_hotkey_map(hks))
    ELSE IF outcome = "constructor_raised" THEN stopped
    ELSE StoppedListener

\* register_hotkey(name, key_combo, callback)
register_hotkey(hks, lst, name, key_combo, callback, outcome) ==
    LET h == DictAssign(hks, name, [combo |-> key_combo, callback |-> callback]) IN
    [hotkeys |-> h, listener |-> _restart_listener(h, lst, outcome), ret |-> TRUE]

\* unregister_hotkey(name)
unregister_hotkey(hks, lst, name, outcome) ==
    IF name \in DictKeys(hks)
    THEN LET h == DictDelete(hks, name) IN
         [hotkeys |-> h, listener |-> _restart_listener(h, lst, outcome), ret |-> TRUE]
    ELSE [hotkeys |-> hks, listener |-> lst, ret |-> FALSE]

\* get_hotkeys(): name -> combo
get_hotkeys(hks) == [i \in DOMAIN hks |-> [key |-> hks[i].key, value |-> hks[i].value.combo]]

\* stop(): the new value of self.listener
hotkey_stop(lst) == NoListener

\* The name of the binding of the panel of window w: f"preview_{window_id}"
PreviewName(w) == <<"preview_", w>>

\* activate_callback of _register_preview_hotkey: activates window w
ActivateCallback(w) == [activates |-> w]

\* wrapper() of make_callback for one entry of the listener: cb(), then
\* hotkey_triggered.emit(hk_name); the emit is not reached when cb raises
wrapper(entry, cb_returns) ==
    IF cb_returns
    THEN << [event |-> "callback", cb |-> entry.cb],
            [event |-> "hotkey_triggered", name |-> entry.hk_name] >>
    ELSE << [event |-> "callback", cb |-> entry.cb] >>

\* The key combo a running listener reacts to, with what it then calls and emits
CanTrigger(lst, combo) == lst.state = "running" /\ combo \in DictKeys(lst.map)

(***************************************************************************)
(* Key combo strings: parse_key_combo / format_key_combo                   *)
(***************************************************************************)
\* str.lower()
lower(s) == [i \in 1..Len(s) |-> LowerChar(s[i])]

\* str.upper()
upper(s) == [i \in 1..Len(s) |-> UpperChar(s[i])]

\* str.capitalize(): the first character in upper case, the rest in lower case
capitalize(s) == [i \in 1..Len(s) |-> IF i = 1 THEN UpperChar(s[i]) ELSE LowerChar(s[i])]

\* str.split(sep) for a separator of one character
RECURSIVE split(_, _)
split(s, sep) ==
    IF \A i \in 1..Len(s) : s[i] # sep THEN <<s>>
    ELSE LET i == CHOOSE k \in 1..Len(s) : s[k] = sep /\ \A j \in 1..(k - 1) : s[j] # sep
         IN <<SubSeq(s, 1, i - 1)>> \o split(SubSeq(s, i + 1, Len(s)), sep)

RECURSIVE lstrip(_, _)
lstrip(s, chars) ==
    IF s # <<>> /\ Head(s) \in chars THEN lstrip(Tail(s), chars) ELSE s

RECURSIVE rstrip(_, _)
rstrip(s, chars) ==
    IF s # <<>> /\ s[Len(s)] \in chars THEN rstrip(SubSeq(s, 1, Len(s) - 1), chars) ELSE s

\* str.strip(chars); str.strip() strips white space
strip(s, chars) == rstrip(lstrip(s, chars), chars)
Whitespace == {" "}

\* sep.join(parts)
RECURSIVE join(_, _)
join(sep, parts) ==
    IF parts = <<>> THEN <<>>
    ELSE IF Len(parts) = 1 THEN parts[1]
    ELSE parts[1] \o sep \o join(sep, Tail(parts))

\* str.startswith(prefix), str.isdigit()
startswith(s, prefix) == Len(s) >= Len(prefix) /\ SubSeq(s, 1, Len(prefix)) = prefix
isdigit(s) == s # <<>> /\ \A i \in 1..Len(s) : IsDigit(s[i])

\* f'<{part}>'
Angle(part) == <<"<">> \o part \o <<">">>

\* key_map of parse_key_combo
key_map ==
    << [key |-> <<"c", "t", "r", "l">>,                value |-> Angle(<<"c", "t", "r", "l">>)],
       [key |-> <<"c", "o", "n", "t", "r", "o", "l">>, value |-> Angle(<<"c", "t", "r", "l">>)],
       [key |-> <<"a", "l", "t">>,                     value |-> Angle(<<"a", "l", "t">>)],
       [key |-> <<"s", "h", "i", "f", "t">>,           value |-> Angle(<<"s", "h", "i", "f", "t">>)],
       [key |-> <<"s", "u", "p", "e", "r">>,           value |-> Angle(<<"c", "m", "d">>)],
       [key |-> <<"w", "i", "n">>,                     value |-> Angle(<<"c", "m", "d">>)],
       [key |-> <<"c", "m", "d">>,                     value |-> Angle(<<"c", "m", "d">>)] >>

\* The body of the loop of parse_key_combo
parse_part(raw) ==
    LET part == strip(raw, Whitespace) IN
    IF part \in DictKeys(key_map) THEN DictValue(key_map, part)
    ELSE IF Len(part) = 1 THEN part
    ELSE IF startswith(part, <<"f">>) /\ isdigit(Tail(part)) THEN Angle(part)
    ELSE Angle(part)

\* parse_key_combo without lower()
parse_key_combo_as_typed(combo_string) ==
    LET parts == split(combo_string, "+") IN
    join(<<"+">>, [i \in 1..Len(parts) |-> parse_part(parts[i])])

parse_key_combo(combo_string) ==
    LET parts == split(lower(combo_string), "+") IN
    join(<<"+">>, [i \in 1..Len(parts) |-> parse_part(parts[i])])

\* The body of the loop of format_key_combo
format_part(raw) ==
    LET part == capitalize(strip(raw, {"<", ">"})) IN
    IF part = <<"C", "m", "d">> THEN <<"S", "u", "p", "e", "r">> ELSE part

format_key_combo(pynput_combo) ==
    LET parts == split(pynput_combo, "+") IN
    join(<<"+">>, [i \in 1..Len(parts) |-> format_part(parts[i])])

(***************************************************************************)
(* Preview panel: preview_frame.py                                         *)
(***************************************************************************)
max(a, b) == IF a >= b THEN a ELSE b
min(a, b) == IF a <= b THEN a ELSE b

\* PreviewFrame(window_id, window_title) after __init__: not shown, timer idle
PreviewFrame(window_id, window_title) ==
    [ cls |-> "PreviewFrame", window_id |-> window_id, window_title |-> window_title,
      is_dragging |-> FALSE, scale_factor |-> 30, refresh_rate |-> 30,
      update_timer |-> [active |-> FALSE, interval |-> 0],
      visible |-> FALSE, x |-> 0, y |-> 0, width |-> 400, height |-> 300 ]

\* set_scale without the upper limit
set_scale_unlimited_above(f, scale) == [f EXCEPT !.scale_factor = max(10, scale)]

set_scale(f, scale) == [f EXCEPT !.scale_factor = max(10, min(100, scale))]

\* set_refresh_rate that starts the timer whether or not it was active
set_refresh_rate_starting(f, fps) ==
    [f EXCEPT !.refresh_rate = max(1, min(60, fps)),
              !.update_timer = [active |-> TRUE,
                                interval |-> 1000 \div max(1, min(60, fps))]]

set_refresh_rate(f, fps) ==
    LET rate == max(1, min(60, fps)) IN
    [f EXCEPT !.refresh_rate = rate,
              !.update_timer = IF @.active
                               THEN [active |-> TRUE, interval |-> 1000 \div rate]
                               ELSE @]

start_preview(f) ==
    [f EXCEPT !.update_timer = [active |-> TRUE, interval |-> 1000 \div f.refresh_rate]]

stop_preview(f) == [f EXCEPT !.update_timer.active = FALSE]

\* QWidget.show / hide / move / resize
show(f) == [f EXCEPT !.visible = TRUE]
hide(f) == [f EXCEPT !.visible = FALSE]
move(f, x, y) == [f EXCEPT !.x = x, !.y = y]
resize(f, width, height) == [f EXCEPT !.width = width, !.height = height]

\* close(): closeEvent stops the timer (and emits closed(window_id)), the
\* accepted event hides the widget
close(f) == hide(stop_preview(f))

\* PreviewFrame.closeEvent: stop_preview(), closed.emit(window_id), then the
\* accepted event hides the widget.  The signal is recorded with the state of
\* the timer at the moment it is emitted.
frame_closeEvent(f) ==
    [ frame |-> hide(stop_preview(f)),
      emitted |-> << [ signal |-> "closed", arg |-> f.window_id,
                       timer_active |-> stop_preview(f).update_timer.active ] >> ]

\* PreviewFrame.mousePressEvent; on_title: the position is on the title label
mousePressEvent(f, button, on_title) ==
    IF button = "LeftButton"
    THEN IF on_title
         THEN [frame |-> [f EXCEPT !.is_dragging = TRUE], emitted |-> <<>>]
         ELSE [ frame |-> f,
                emitted |-> << [ signal |-> "activated", arg |-> f.window_id,
                                 timer_active |-> f.update_timer.active ] >> ]
    ELSE IF button = "RightButton"
    THEN frame_closeEvent(f)
    ELSE [frame |-> f, emitted |-> <<>>]

get_geometry_dict(f) == [x |-> f.x, y |-> f.y, width |-> f.width, height |-> f.height]

(***************************************************************************)
(* Bounds and inputs of the profile-store specifications                   *)
(***************************************************************************)
\* Longest window list of a profile handed to save_profile.
MaxWindows == 2

\* Window identifiers are 1..NumWindows.
NumWindows == 2
WindowIds == 1..NumWindows

\* The title of window w as the window list shows it
WindowTitle(w) == <<"EVE - ", w>>

\* Panels displaced from the registry that may stay on screen at one time.
MaxOrphans == 1

\* The PreviewFrame objects live in slots; an empty slot holds None.
FrameSlots == 1..(MaxOrphans + NumWindows + MaxWindows)
NoFrames == [s \in FrameSlots |-> None]

\* Two window entries differing in every field.
SampleWindows ==
    { WindowConfig(1, WindowTitle(1), 100, 100, 400, 300, 30, <<>>, TRUE),
      WindowConfig(2, WindowTitle(2), 10, 20, 320, 240, 50,
                   <<"C", "t", "r", "l", "+", "A", "l", "t", "+", "1">>, FALSE) }

WindowLists == UNION {[1..n -> SampleWindows] : n \in 0..MaxWindows}

\* The profiles a caller may hand to save_profile in SpecRoundTrip.
RoundTripProfiles ==
    { Profile(n, ws, r, a, c) :
        n \in ProfileNames, ws \in WindowLists, r \in {1, 30, 60},
        a \in BOOLEAN, c \in BOOLEAN }

\* Documents a profile file may hold that save_profile did not write: one
\* without a name or a window list, and one whose window entry lacks required keys.
HandEdited ==
    { Json([refresh_rate |-> 10]),
      Json([name |-> "Alpha", windows |-> <<[window_id |-> 1]>>]) }

\* The profiles a caller may hand to save_profile in SpecStore.
StoreProfiles ==
    { NewProfile(n) : n \in ProfileNames }
    \cup { Profile(n, <<w>>, 60, FALSE, TRUE) :
             n \in ProfileNames, w \in {x \in SampleWindows : x.enabled} }

\* config.json as found at construction
InitialConfigFiles ==
    { Missing, Json([theme |-> "dark"]) }

(***************************************************************************)
(* SpecRoundTrip: one save_profile(P) followed by load_profile(P.name)     *)
(***************************************************************************)
RT_Init ==
    /\ files \in [ProfileNames -> {Missing, Malformed} \cup HandEdited]
    /\ config = DefaultConfig
    /\ config_file = Missing
    /\ hotkeys = <<>> /\ listener = NoListener
    /\ frames = NoFrames /\ main_window = None
    /\ \E p \in RoundTripProfiles : call = [op |-> "input", arg |-> p]

RT_Save ==
    /\ call.op = "input"
    /\ \E io \in IoOutcomes :
         LET r == save_profile(files, call.arg, io) IN
         /\ files' = r.files
         /\ call' = [op |-> "save_profile", arg |-> call.arg, ret |-> r.ret]
    /\ UNCHANGED <<config, config_file, hotkeyVars, panelVars>>

RT_Load ==
    /\ call.op = "save_profile"
    /\ call' = [ op |-> "load_profile", arg |-> call.arg.name,
                 ret |-> load_profile(files, call.arg.name),
                 saved |-> call.arg, save_ret |-> call.ret ]
    /\ UNCHANGED <<storeVars, hotkeyVars, panelVars>>

RT_Next == RT_Save \/ RT_Load

SpecRoundTrip == RT_Init /\ [][RT_Next]_vars

(***************************************************************************)
(* SpecStore: any sequence of calls of the ConfigManager interface         *)
(***************************************************************************)
Store_Init ==
    /\ files \in [ProfileNames -> {Missing, Json([refresh_rate |-> 10])}]
    /\ config_file \in InitialConfigFiles
    /\ config = _load_config(config_file)
    /\ hotkeys = <<>> /\ listener = NoListener
    /\ frames = NoFrames /\ main_window = None
    /\ call = [op |-> "__init__"]

SaveProfile(p, io) ==
    LET r == save_profile(files, p, io) IN
    /\ files' = r.files
    /\ call' = [op |-> "save_profile", arg |-> p.name, ret |-> r.ret]
    /\ UNCHANGED <<config, config_file, hotkeyVars, panelVars>>

LoadProfile(n) ==
    /\ call' = [op |-> "load_profile", arg |-> n, ret |-> load_profile(files, n)]
    /\ UNCHANGED <<storeVars, hotkeyVars, panelVars>>

DeleteProfile(n, io) ==
    LET r == delete_profile(files, n, io) IN
    /\ files' = r.files
    /\ call' = [op |-> "delete_profile", arg |-> n, ret |-> r.ret]
    /\ UNCHANGED <<config, config_file, hotkeyVars, panelVars>>

ListProfiles(globbed) ==
    /\ call' = [op |-> "list_profiles", arg |-> globbed, ret |-> list_profiles(globbed)]
    /\ UNCHANGED <<storeVars, hotkeyVars, panelVars>>

GetCurrentProfile(io) ==
    LET r == get_current_profile(files, config, io) IN
    /\ files' = r.files
    /\ call' = [ op |-> "get_current_profile",
                 arg |-> Get(config, "current_profile", "Default"),
                 io |-> io, ret |-> r.ret ]
    /\ UNCHANGED <<config, config_file, hotkeyVars, panelVars>>

SetCurrentProfile(n, io) ==
    LET r == set_setting(config, config_file, "current_profile", n, io) IN
    /\ config' = r.config
    /\ config_file' = r.config_file
    /\ call' = [op |-> "set_current_profile", arg |-> n]
    /\ UNCHANGED <<files, hotkeyVars, panelVars>>

Store_Next ==
    \/ \E p \in StoreProfiles, io \in IoOutcomes : SaveProfile(p, io)
    \/ \E n \in ProfileNames : LoadProfile(n)
    \/ \E n \in ProfileNames, io \in {"ok", "error"} : DeleteProfile(n, io)
    \/ \E g \in GlobOrders(files) : ListProfiles(g)
    \/ \E io \in IoOutcomes : GetCurrentProfile(io)
    \/ \E n \in ProfileNames, io \in IoOutcomes : SetCurrentProfile(n, io)

SpecStore == Store_Init /\ [][Store_Next]_vars

(***************************************************************************)
(* Claims on the profile store                                             *)
(***************************************************************************)
\* C1: for a profile name other than "Default", load_profile(n) after a
\* successful save_profile(P) of a profile named n returns P, field for field,
\* the window entries in their order.
C1_SaveLoadRoundTrip ==
    (call.op = "load_profile" /\ call.save_ret /\ call.saved.name # "Default")
        => call.ret = call.saved

C1_Witness ==
    /\ call.op = "load_profile"
    /\ call.save_ret
    /\ call.saved.name = "Alpha"
    /\ Len(call.saved.windows) = 2
    /\ call.saved.windows[1] # call.saved.windows[2]
    /\ call.saved.click_through
    /\ ~call.saved.always_on_top
    /\ call.ret = call.saved

NoDuplicates(l) == \A i, j \in DOMAIN l : i # j => l[i] # l[j]
Ascending(l) == \A i, j \in DOMAIN l : i < j => NameLess(l[i], l[j])

\* C3: whatever calls came before, list_profiles() contains "Default", holds
\* exactly the names of the stored profile files plus "Default", has no
\* duplicates and is in lexicographic order.
C3_ListProfiles ==
    call.op = "list_profiles" =>
        /\ "Default" \in Range(call.ret)
        /\ Range(call.ret) = Stored(files) \cup {"Default"}
        /\ NoDuplicates(call.ret)
        /\ Ascending(call.ret)

C3_Witness ==
    /\ call.op = "list_profiles"
    /\ call.arg = <<"beta", "Alpha">>
    /\ call.ret = <<"Alpha", "Default", "beta">>

NumBindings == 3
BindingNames == {PreviewName(w) : w \in 1..NumBindings}
Callbacks == {ActivateCallback(w) : w \in WindowIds}

\* Key combos in pynput form, as register_hotkey receives them
PynputCombos ==
    { <<"<", "c", "t", "r", "l", ">", "+", "1">>,
      <<"<", "a", "l", "t", ">", "+", "2">> }

Hk_Init ==
    /\ files = [n \in ProfileNames |-> Missing]
    /\ config = DefaultConfig
    /\ config_file = Missing
    /\ hotkeys = <<>>
    /\ listener = NoListener
    /\ frames = NoFrames
    /\ main_window = None
    /\ call = [op |-> "__init__"]

RegisterHotkey(name, key_combo, callback, outcome) ==
    LET r == register_hotkey(hotkeys, listener, name, key_combo, callback, outcome) IN
    /\ hotkeys' = r.hotkeys
    /\ listener' = r.listener
    /\ call' = [op |-> "register_hotkey", arg |-> name, ret |-> r.ret]
    /\ UNCHANGED <<storeVars, panelVars>>

UnregisterHotkey(name, outcome) ==
    LET r == unregister_hotkey(hotkeys, listener, name, outcome) IN
    /\ hotkeys' = r.hotkeys
    /\ listener' = r.listener
    /\ call' = [op |-> "unregister_hotkey", arg |-> name, ret |-> r.ret]
    /\ UNCHANGED <<storeVars, panelVars>>

HotkeyStart(outcome) ==
    /\ listener' = _restart_listener(hotkeys, listener, outcome)
    /\ call' = [op |-> "start"]
    /\ UNCHANGED <<hotkeys, storeVars, panelVars>>

HotkeyStop ==
    /\ listener' = hotkey_stop(listener)
    /\ call' = [op |-> "stop"]
    /\ UNCHANGED <<hotkeys, storeVars, panelVars>>

\* The user presses a combo the running listener has: wrapper() calls cb(),
\* then emits hotkey_triggered(hk_name).
HotkeyTrigger(combo, cb_returns) ==
    /\ CanTrigger(listener, combo)
    /\ call' = [ op |-> "trigger", arg |-> combo, cb_returns |-> cb_returns,
                 events |-> wrapper(DictValue(listener.map, combo), cb_returns) ]
    /\ UNCHANGED <<hotkeyVars, storeVars, panelVars>>

Hk_Next ==
    \/ \E n \in BindingNames, c \in PynputCombos, cb \in Callbacks, o \in StartOutcomes :
         RegisterHotkey(n, c, cb, o)
    \/ \E n \in BindingNames, o \in StartOutcomes : UnregisterHotkey(n, o)
    \/ \E o \in StartOutcomes : HotkeyStart(o)
    \/ HotkeyStop
    \/ \E c \in PynputCombos, cb_returns \in BOOLEAN : HotkeyTrigger(c, cb_returns)

SpecHotkeys == Hk_Init /\ [][Hk_Next]_vars

(***************************************************************************)
(* Claims on the hotkey registry                                           *)
(***************************************************************************)
\* The listener lst reacts to the binding h with h's own callback and name.
Dispatches(lst, h) ==
    /\ CanTrigger(lst, h.value.combo)
    /\ DictValue(lst.map, h.value.combo) = [cb |-> h.value.callback, hk_name |-> h.key]

\* The running listener lst reacts to exactly the bindings hks.
DispatchesExactly(lst, hks) ==
    /\ \A i \in DOMAIN hks : Dispatches(lst, hks[i])
    /\ \A j \in DOMAIN lst.map : \E i \in DOMAIN hks :
          /\ hks[i].value.combo = lst.map[j].key
          /\ hks[i].key = lst.map[j].value.hk_name
          /\ hks[i].value.callback = lst.map[j].value.cb

\* C5: after every register_hotkey or unregister_hotkey the active listener
\* dispatches exactly the current bindings: each binding of the mapping can be
\* triggered with its own callback and name, and nothing else can.
C5_ListenerDispatchesBindings ==
    (call.op \in {"register_hotkey", "unregister_hotkey"} /\ listener.state = "running")
        => DispatchesExactly(listener, hotkeys)

\* C6: unregistering a registered name X removes X from the mapping, keeps every
\* other binding, and leaves no active listener when nothing remains and
\* otherwise a listener that dispatches exactly the remaining bindings;
\* unregistering an unknown name returns false and changes nothing.
C6_UnregisterLeavesTheRest ==
    [][ call'.op = "unregister_hotkey" =>
          IF call'.arg \in DictKeys(hotkeys)
          THEN /\ call'.ret = TRUE
               /\ hotkeys' = DictDelete(hotkeys, call'.arg)
               /\ call'.arg \notin DictKeys(hotkeys')
               /\ (hotkeys' = <<>> => listener'.state # "running")
               /\ (listener'.state = "running" => DispatchesExactly(listener', hotkeys'))
          ELSE /\ call'.ret = FALSE
               /\ UNCHANGED <<hotkeys, listener>> ]_vars

(***************************************************************************)
(* SpecPanel: any sequence of calls on one PreviewFrame                    *)
(***************************************************************************)
\* Arguments are taken within InputMargin of each limit, and 30.
InputMargin == 2

ScaleInputs ==
    (10 - InputMargin)..(10 + InputMargin) \cup {30}
        \cup (100 - InputMargin)..(100 + InputMargin)

FpsInputs ==
    (1 - InputMargin)..(1 + InputMargin) \cup {30}
        \cup (60 - InputMargin)..(60 + InputMargin)

Panel_Init ==
    /\ files = [n \in ProfileNames |-> Missing]
    /\ config = DefaultConfig
    /\ config_file = Missing
    /\ hotkeys = <<>>
    /\ listener = NoListener
    /\ \E w \in WindowIds :
         frames = [NoFrames EXCEPT ![1] = PreviewFrame(w, WindowTitle(w))]
    /\ main_window = None
    /\ call = [op |-> "__init__", slot |-> 1]

SetScale(s, scale) ==
    /\ frames[s] # None
    /\ frames' = [frames EXCEPT ![s] = set_scale(@, scale)]
    /\ call' = [op |-> "set_scale", slot |-> s, arg |-> scale]
    /\ UNCHANGED <<storeVars, hotkeyVars, main_window>>

SetRefreshRate(s, fps) ==
    /\ frames[s] # None
    /\ frames' = [frames EXCEPT ![s] = set_refresh_rate(@, fps)]
    /\ call' = [op |-> "set_refresh_rate", slot |-> s, arg |-> fps]
    /\ UNCHANGED <<storeVars, hotkeyVars, main_window>>

StartPreview(s) ==
    /\ frames[s] # None
    /\ frames' = [frames EXCEPT ![s] = start_preview(@)]
    /\ call' = [op |-> "start_preview", slot |-> s]
    /\ UNCHANGED <<storeVars, hotkeyVars, main_window>>

StopPreview(s) ==
    /\ frames[s] # None
    /\ frames' = [frames EXCEPT ![s] = stop_preview(@)]
    /\ call' = [op |-> "stop_preview", slot |-> s]
    /\ UNCHANGED <<storeVars, hotkeyVars, main_window>>

Panel_Next ==
    \/ \E s \in FrameSlots, scale \in ScaleInputs : SetScale(s, scale)
    \/ \E s \in FrameSlots, fps \in FpsInputs : SetRefreshRate(s, fps)
    \/ \E s \in FrameSlots : StartPreview(s)
    \/ \E s \in FrameSlots : StopPreview(s)

SpecPanel == Panel_Init /\ [][Panel_Next]_vars

\* x brought into [lo, hi]: lo below the range, hi above it, x itself within
Clamped(x, lo, hi) == IF x < lo THEN lo ELSE IF x > hi THEN hi ELSE x

\* C9: directly after construction and after any set_scale / set_refresh_rate
\* calls the scale factor of a panel lies in [0.1, 1.0] and its frame rate in
\* [1, 60]; an argument below the range is stored as the lower limit, one above
\* it as the upper limit, one within it unchanged.
C9_ScaleAndRateClamped ==
    /\ \A s \in FrameSlots : frames[s] # None =>
          /\ frames[s].scale_factor >= 10 /\ frames[s].scale_factor <= 100
          /\ frames[s].refresh_rate >= 1 /\ frames[s].refresh_rate <= 60
    /\ call.op = "set_scale" =>
          frames[call.slot].scale_factor = Clamped(call.arg, 10, 100)
    /\ call.op = "set_refresh_rate" =>
          frames[call.slot].refresh_rate = Clamped(call.arg, 1, 60)

C9_Witness ==
    /\ call.op = "set_scale"
    /\ call.arg > 100
    /\ frames[call.slot].scale_factor = 100
    /\ frames[call.slot].refresh_rate = 1
    /\ frames[call.slot].update_timer.active

(***************************************************************************)
(* SpecCombo: parse_key_combo, then format_key_combo on its result         *)
(***************************************************************************)
\* Most modifier tokens in front of the key of a combo string.
MaxModifiers == 2

\* Every alias of key_map, in lower case, capitalized and in upper case
ModifierTokens ==
    UNION { {key_map[i].key, capitalize(key_map[i].key), upper(key_map[i].key)} :
              i \in 1..Len(key_map) }

\* The single characters a combo string ends in
KeyChars == {"1", "a", "Z", "<"}

Combo_Init ==
    /\ files = [n \in ProfileNames |-> Missing]
    /\ config = DefaultConfig
    /\ config_file = Missing
    /\ hotkeys = <<>>
    /\ listener = NoListener
    /\ frames = NoFrames
    /\ main_window = None
    /\ \E n \in 0..MaxModifiers : \E mods \in [1..n -> ModifierTokens], k \in KeyChars :
         call = [ op |-> "input", mods |-> mods, key |-> k,
                  combo |-> join(<<"+">>, mods \o << <<k>> >>) ]

ParseKeyCombo ==
    /\ call.op = "input"
    /\ call' = [call EXCEPT !.op = "parse_key_combo", !.combo = parse_key_combo(@)]
    /\ UNCHANGED <<storeVars, hotkeyVars, panelVars>>

FormatKeyCombo ==
    /\ call.op = "parse_key_combo"
    /\ call' = [call EXCEPT !.op = "format_key_combo", !.combo = format_key_combo(@)]
    /\ UNCHANGED <<storeVars, hotkeyVars, panelVars>>

Combo_Next == ParseKeyCombo \/ FormatKeyCombo

SpecCombo == Combo_Init /\ [][Combo_Next]_vars

\* The canonical name of a modifier token
CanonicalModifier(token) ==
    LET a == lower(token) IN
    IF a \in {<<"c", "t", "r", "l">>, <<"c", "o", "n", "t", "r", "o", "l">>}
    THEN <<"C", "t", "r", "l">>
    ELSE IF a = <<"a", "l", "t">> THEN <<"A", "l", "t">>
    ELSE IF a = <<"s", "h", "i", "f", "t">> THEN <<"S", "h", "i", "f", "t">>
    ELSE <<"S", "u", "p", "e", "r">>

\* C10: for a combo string of modifier tokens (any alias, any letter case)
\* joined by '+' and ending in a single character,
\* format_key_combo(parse_key_combo(combo)) is the canonical form: each alias
\* as Ctrl, Alt, Shift or Super, the key capitalized, order and count kept.
C10_FormatParseCanonical ==
    (call.op = "format_key_combo" /\ Len(call.mods) >= 1) =>
        call.combo = join(<<"+">>,
                          [i \in 1..Len(call.mods) |-> CanonicalModifier(call.mods[i])]
                              \o << <<UpperChar(call.key)>> >>)

(***************************************************************************)
(* SpecParse: parse_key_combo on combos of up to MaxTokens tokens          *)
(***************************************************************************)
MaxTokens == 3

\* Aliases in several letter cases, function keys, single characters and
\* other key names
ParseTokens ==
    { <<"C", "t", "r", "l">>, <<"c", "o", "n", "t", "r", "o", "l">>,
      <<"A", "l", "t">>, <<"A", "L", "T">>, <<"S", "h", "i", "f", "t">>,
      <<"S", "u", "p", "e", "r">>, <<"w", "i", "n">>, <<"C", "M", "D">>,
      <<"F", "1">>, <<"f", "1", "2">>, <<"1">>, <<"A">>,
      <<"D", "e", "l", "e", "t", "e">> }

Parse_Init ==
    /\ files = [n \in ProfileNames |-> Missing]
    /\ config = DefaultConfig
    /\ config_file = Missing
    /\ hotkeys = <<>>
    /\ listener = NoListener
    /\ frames = NoFrames
    /\ main_window = None
    /\ \E n \in 1..MaxTokens : \E tokens \in [1..n -> ParseTokens] :
         call = [op |-> "input", tokens |-> tokens, arg |-> join(<<"+">>, tokens)]

ParseTyped ==
    /\ call.op = "input"
    /\ call' = [ op |-> "parse_key_combo", tokens |-> call.tokens, arg |-> call.arg,
                 ret |-> parse_key_combo(call.arg) ]
    /\ UNCHANGED <<storeVars, hotkeyVars, panelVars>>

Parse_Next == ParseTyped

SpecParse == Parse_Init /\ [][Parse_Next]_vars

\* What C11 says one token becomes
ParsedToken(token) ==
    LET t == lower(token) IN
    IF t \in {<<"c", "t", "r", "l">>, <<"c", "o", "n", "t", "r", "o", "l">>}
    THEN <<"<", "c", "t", "r", "l", ">">>
    ELSE IF t = <<"a", "l", "t">> THEN <<"<", "a", "l", "t", ">">>
    ELSE IF t = <<"s", "h", "i", "f", "t">> THEN <<"<", "s", "h", "i", "f", "t", ">">>
    ELSE IF t \in {<<"s", "u", "p", "e", "r">>, <<"w", "i", "n">>, <<"c", "m", "d">>}
    THEN <<"<", "c", "m", "d", ">">>
    ELSE IF Len(t) = 1 THEN t
    ELSE <<"<">> \o t \o <<">">>

\* C11: parse_key_combo converts a combo token by token, whatever the letter
\* case, keeping number and order of the tokens: the aliases become <ctrl>,
\* <alt>, <shift>, <cmd>, fN becomes <fN>, a single character its lower case,
\* any other token t becomes <t>.
C11_ParseTokenByToken ==
    call.op = "parse_key_combo" =>
        /\ Len(split(call.ret, "+")) = Len(call.tokens)
        /\ \A i \in 1..Len(call.tokens) :
              split(call.ret, "+")[i] = ParsedToken(call.tokens[i])

\* "Ctrl+Shift+F1" gives "<ctrl>+<shift>+<f1>"
C11_Witness ==
    /\ call.op = "parse_key_combo"
    /\ call.arg = <<"C", "t", "r", "l", "+", "S", "h", "i", "f", "t", "+", "F", "1">>
    /\ call.ret = <<"<", "c", "t", "r", "l", ">", "+", "<", "s", "h", "i", "f", "t", ">",
                    "+", "<", "f", "1", ">">>

(***************************************************************************)
(* Window capture: core/window_capture.py                                  *)
(***************************************************************************)

\* subprocess.run returned: the tool ran and exited
CompletedProcess(returncode, stdout) ==
    [cls |-> "CompletedProcess", returncode |-> returncode, stdout |-> stdout]

\* subprocess.run raised: the tool is not installed, or did not end in time
Raised(exc) == [cls |-> exc]

\* What a call has produced: its value, the exception that left it
\* ("none" when it returned), and the tools it has run, in order
Returned(ret, ran) == [ret |-> ret, exc |-> "none", ran |-> ran]
Propagated(exc, ran) == [ret |-> None, exc |-> exc, ran |-> ran]

\* except (...): every exception of the model derives from Exception
Caught(exc, handlers) == exc \in handlers \/ "Exception" \in handlers

\* The size in pixels of the bitmap the tools write for a window
BitmapWidth(window_id) == 3 * window_id + 3
BitmapHeight(window_id) == 10 * window_id

\* int(x * scale), the scale in hundredths: int() drops the fraction
int_scaled(x, scale) == (x * scale) \div 100

\* new_size = (int(img.width * scale), int(img.height * scale))
new_size(width, height, scale) ==
    [width |-> int_scaled(width, scale), height |-> int_scaled(height, scale)]

\* The size after `if scale != 1.0: img = img.resize(new_size, ...)`
scaled_size(width, height, scale) ==
    IF scale # 100
    THEN new_size(width, height, scale)
    ELSE [width |-> width, height |-> height]

\* The image of a window, at a scale in hundredths; resize is applied when
\* the scale is not 1.0
Image(window_id, tool, scale) ==
    [cls |-> "Image", window_id |-> window_id, tool |-> tool, scale |-> scale,
     width |-> scaled_size(BitmapWidth(window_id), BitmapHeight(window_id), scale).width,
     height |-> scaled_size(BitmapWidth(window_id), BitmapHeight(window_id), scale).height]

\* Image.open(io.BytesIO(stdout)) followed by the resize: the image, or the
\* exception of bytes that are no image
Image_open(window_id, tool, scale, stdout) ==
    IF stdout = "png"
    THEN Returned(Image(window_id, tool, scale), <<>>)
    ELSE Propagated("UnidentifiedImageError", <<>>)

\* The body of a try block around one tool run whose output is opened
open_output(window_id, tool, scale, result) ==
    IF result.cls # "CompletedProcess"
    THEN Propagated(result.cls, <<>>)
    ELSE IF result.returncode = 0 /\ result.stdout # ""
         THEN Image_open(window_id, tool, scale, result.stdout)
         ELSE Returned(None, <<>>)

\* _capture_window_xwd(window_id, scale) with the outcomes of xwd and convert
_capture_window_xwd(window_id, scale, xwd, convert) ==
    IF xwd.cls # "CompletedProcess"
    THEN IF Caught(xwd.cls, {"TimeoutExpired", "FileNotFoundError", "Exception"})
         THEN Returned(None, <<"xwd">>)
         ELSE Propagated(xwd.cls, <<"xwd">>)
    ELSE IF xwd.returncode # 0
         THEN Returned(None, <<"xwd">>)
         ELSE LET body == open_output(window_id, "xwd", scale, convert)
              IN  IF body.exc = "none"
                  THEN Returned(body.ret, <<"xwd", "convert">>)
                  ELSE IF Caught(body.exc, {"TimeoutExpired", "FileNotFoundError",
                                            "Exception"})
                       THEN Returned(None, <<"xwd", "convert">>)
                       ELSE Propagated(body.exc, <<"xwd", "convert">>)

\* capture_window as it would be without the fallback call
capture_window_import_only(window_id, scale, import, xwd, convert) ==
    LET body == open_output(window_id, "import", scale, import)
    IN  IF body.exc = "none" \/ Caught(body.exc, {"Exception"})
        THEN Returned(body.ret, <<"import">>)
        ELSE Propagated(body.exc, <<"import">>)

\* capture_window(window_id, scale) with the outcomes of import, xwd, convert
capture_window(window_id, scale, import, xwd, convert) ==
    LET body == open_output(window_id, "import", scale, import)
        fallback == _capture_window_xwd(window_id, scale, xwd, convert)
    IN  IF body.exc = "none" /\ body.ret # None
        THEN Returned(body.ret, <<"import">>)
        ELSE IF body.exc = "none"
                \/ Caught(body.exc, {"TimeoutExpired", "FileNotFoundError", "Exception"})
             THEN [fallback EXCEPT !.ran = <<"import">> \o @]
             ELSE Propagated(body.exc, <<"import">>)

\* activate_window(window_id) with the outcomes of wmctrl and xdotool
activate_window(window_id, wmctrl, xdotool) ==
    IF wmctrl.cls # "CompletedProcess"
    THEN IF Caught(wmctrl.cls, {"TimeoutExpired", "FileNotFoundError"})
         THEN Returned(FALSE, <<"wmctrl">>)
         ELSE Propagated(wmctrl.cls, <<"wmctrl">>)
    ELSE IF wmctrl.returncode = 0
         THEN Returned(TRUE, <<"wmctrl">>)
         ELSE IF xdotool.cls # "CompletedProcess"
              THEN IF Caught(xdotool.cls, {"TimeoutExpired", "FileNotFoundError"})
                   THEN Returned(FALSE, <<"wmctrl", "xdotool">>)
                   ELSE Propagated(xdotool.cls, <<"wmctrl", "xdotool">>)
              ELSE Returned(xdotool.returncode = 0, <<"wmctrl", "xdotool">>)

(***************************************************************************)
(* Specification of capture and activation.  The windows of the X server   *)
(* are WindowIds; GhostWindow is an id that names none of them, for which  *)
(* no tool that reads a window exits with zero.                            *)
(***************************************************************************)
GhostWindow == NumWindows + 1

CaptureScales == {30, 100}

\* Outcomes of a tool whose output is an image
ImageToolOutcomes ==
    { CompletedProcess(0, "png"), CompletedProcess(0, ""),
      CompletedProcess(0, "garbage"), CompletedProcess(1, ""),
      Raised("FileNotFoundError"), Raised("TimeoutExpired") }

\* Outcomes of xwd
DumpToolOutcomes ==
    { CompletedProcess(0, "xwd"), CompletedProcess(1, ""),
      Raised("FileNotFoundError"), Raised("TimeoutExpired") }

\* Outcomes of a tool that only acts
ActionToolOutcomes ==
    { CompletedProcess(0, ""), CompletedProcess(1, ""),
      Raised("FileNotFoundError"), Raised("TimeoutExpired") }

Exits0(result) == result.cls = "CompletedProcess" /\ result.returncode = 0

\* What the tools can do for the window
Possible(window_id, result) == window_id \in WindowIds \/ ~Exits0(result)

Capture_Init ==
    /\ files = [n \in ProfileNames |-> Missing]
    /\ config = DefaultConfig
    /\ config_file = Missing
    /\ hotkeys = <<>>
    /\ listener = NoListener
    /\ frames = NoFrames
    /\ main_window = None
    /\ \E window_id \in WindowIds \cup {GhostWindow} :
          \/ \E scale \in CaptureScales, import \in ImageToolOutcomes,
                xwd \in DumpToolOutcomes, convert \in ImageToolOutcomes :
                /\ Possible(window_id, import)
                /\ Possible(window_id, xwd)
                /\ call = [op |-> "capture", window_id |-> window_id, scale |-> scale,
                           import |-> import, xwd |-> xwd, convert |-> convert]
          \/ \E wmctrl \in ActionToolOutcomes, xdotool \in ActionToolOutcomes :
                /\ Possible(window_id, wmctrl)
                /\ Possible(window_id, xdotool)
                /\ call = [op |-> "activate", window_id |-> window_id,
                           wmctrl |-> wmctrl, xdotool |-> xdotool]

CaptureWindow ==
    /\ call.op = "capture"
    /\ call' = [op |-> "capture_window", window_id |-> call.window_id,
                scale |-> call.scale, import |-> call.import, xwd |-> call.xwd,
                convert |-> call.convert,
                out |-> capture_window(call.window_id, call.scale, call.import,
                                       call.xwd, call.convert)]
    /\ UNCHANGED <<storeVars, hotkeyVars, panelVars>>

ActivateWindow ==
    /\ call.op = "activate"
    /\ call' = [op |-> "activate_window", window_id |-> call.window_id,
                wmctrl |-> call.wmctrl, xdotool |-> call.xdotool,
                out |-> activate_window(call.window_id, call.wmctrl, call.xdotool)]
    /\ UNCHANGED <<storeVars, hotkeyVars, panelVars>>

Capture_Next == CaptureWindow \/ ActivateWindow

SpecCapture == Capture_Init /\ [][Capture_Next]_vars

\* The tool ran, exited with zero, and wrote an image that decodes
Succeeds(result) == Exits0(result) /\ result.stdout = "png"

round_scaled(x, scale) == (2 * x * scale + 100) \div 200

\* C28: when scale is not 1.0 the captured bitmap of width w and height h is
\* resampled to round(w*scale) x round(h*scale), on the primary and on the
\* fallback capture path; when scale is 1.0 it is returned at its original
\* size.
C28_ResampledToRoundedSize ==
    (call.op = "capture_window" /\ call.out.ret # None) =>
        /\ call.out.ret.tool \in {"import", "xwd"}
        /\ IF call.scale # 100
           THEN /\ call.out.ret.width = round_scaled(BitmapWidth(call.window_id), call.scale)
                /\ call.out.ret.height = round_scaled(BitmapHeight(call.window_id), call.scale)
           ELSE /\ call.out.ret.width = BitmapWidth(call.window_id)
                /\ call.out.ret.height = BitmapHeight(call.window_id)

\* C13: activate_window never raises, runs the secondary tool whenever the
\* primary did not succeed, and returns true exactly when one of the two
\* tools succeeded.
C13_ActivateFallsBack ==
    call.op = "activate_window" =>
        /\ call.out.exc = "none"
        /\ ~Exits0(call.wmctrl) => call.out.ran = <<"wmctrl", "xdotool">>
        /\ call.out.ret = (Exits0(call.wmctrl) \/ Exits0(call.xdotool))

(***************************************************************************)
(* Application controller: main_window.py                                  *)
(***************************************************************************)
\* The objects the handlers of MainWindow work on.
State(fs, cfg, cf, hks, lst, fr, mw) ==
    [ files |-> fs, config |-> cfg, config_file |-> cf, hotkeys |-> hks,
      listener |-> lst, frames |-> fr, main_window |-> mw ]

\* What the surroundings do while one handler runs: the outcome of its file
\* writes, of its listener starts, and whether a panel that nothing refers to
\* any more is destroyed.
Env(io, outcome, reclaim) == [io |-> io, outcome |-> outcome, reclaim |-> reclaim]

\* The fields of MainWindow after the first lines of __init__ and _setup_ui
MainWindow ==
    [ cls |-> "MainWindow", preview_frames |-> <<>>, previews_list |-> <<>>,
      current_profile |-> None, profile_combo |-> [items |-> <<>>, index |-> 0],
      refresh_rate_spin |-> 30, always_on_top_check |-> TRUE ]

\* The slots self.preview_frames refers to
Referenced(mw) == {mw.preview_frames[i].value : i \in DOMAIN mw.preview_frames}

\* A panel after close(): hidden, timer stopped.  A live panel: shown, timer running.
Closed(f) == ~f.visible /\ ~f.update_timer.active
Live(f) == f # None /\ f.visible /\ f.update_timer.active

\* Panels still open that the registry does not refer to
Orphans(fr, mw) ==
    {s \in FrameSlots : fr[s] # None /\ ~Closed(fr[s]) /\ s \notin Referenced(mw)}

\* Closed panels nothing refers to are destroyed before a new panel is made.
Sweep(fr, mw) ==
    [s \in FrameSlots |->
        IF fr[s] # None /\ Closed(fr[s]) /\ s \notin Referenced(mw) THEN None ELSE fr[s]]

FreeSlot(fr) ==
    CHOOSE s \in FrameSlots : fr[s] = None /\ \A u \in 1..(s - 1) : fr[u] # None

\* list.remove of the first item whose data is window_id (takeItem(i); break)
RemoveFirst(l, window_id) ==
    IF \A i \in 1..Len(l) : l[i] # window_id THEN l
    ELSE LET i == CHOOSE k \in 1..Len(l) :
                     l[k] = window_id /\ \A j \in 1..(k - 1) : l[j] # window_id
         IN SubSeq(l, 1, i - 1) \o SubSeq(l, i + 1, Len(l))

_on_preview_closed(st, env, window_id) ==
    IF window_id \in DictKeys(st.main_window.preview_frames)
    THEN LET u == unregister_hotkey(st.hotkeys, st.listener,
                                    PreviewName(window_id), env.outcome)
         IN [st EXCEPT !.hotkeys = u.hotkeys, !.listener = u.listener,
                       !.main_window.preview_frames = DictDelete(@, window_id),
                       !.main_window.previews_list = RemoveFirst(@, window_id)]
    ELSE st

\* frame.close() on the panel in slot s: PreviewFrame.closeEvent stops the
\* timer and emits closed(window_id), which runs _on_preview_closed.  Panels
\* closed earlier that nothing refers to are gone by then.
closeEvent(st, env, s) ==
    LET fr == [Sweep(st.frames, st.main_window) EXCEPT ![s] = close(st.frames[s])] IN
    _on_preview_closed([st EXCEPT !.frames = fr], env, st.frames[s].window_id)

\* for frame in frames: frame.close()
RECURSIVE close_all(_, _, _)
close_all(st, env, slots) ==
    IF slots = <<>> THEN st
    ELSE close_all(closeEvent(st, env, Head(slots)), env, Tail(slots))

_register_preview_hotkey(st, env, window_id, combo) ==
    LET r == register_hotkey(st.hotkeys, st.listener, PreviewName(window_id),
                             parse_key_combo(combo), ActivateCallback(window_id),
                             env.outcome)
    IN [st EXCEPT !.hotkeys = r.hotkeys, !.listener = r.listener]

_create_preview(st, window_id, window_title) ==
    LET fr == Sweep(st.frames, st.main_window)
        s == FreeSlot(fr)
        frame == start_preview(show(set_refresh_rate(
                     PreviewFrame(window_id, window_title),
                     st.main_window.refresh_rate_spin)))
    IN [st EXCEPT !.frames = [fr EXCEPT ![s] = frame],
                  !.main_window.preview_frames = DictAssign(@, window_id, s),
                  !.main_window.previews_list = Append(@, window_id)]

\* self.preview_frames[window_id] = frame: the panel the entry referred to
\* before, if any, is referred to by nothing any more; it is destroyed or
\* stays as it is (shown, timer running).
store_frame(st, env, window_id, s) ==
    LET pf == st.main_window.preview_frames
        displaced == IF window_id \in DictKeys(pf) THEN {DictValue(pf, window_id)} ELSE {}
        stays == /\ ~env.reclaim
                 /\ Cardinality(Orphans(st.frames, st.main_window) \ {s}) < MaxOrphans
    IN [st EXCEPT !.main_window.preview_frames = DictAssign(@, window_id, s),
                  !.frames = [u \in FrameSlots |->
                                 IF u \in displaced /\ ~stays THEN None ELSE @[u]]]

_create_preview_from_config(st, env, cfg) ==
    LET fr == Sweep(st.frames, st.main_window)
        s == FreeSlot(fr)
        frame == resize(move(set_scale(set_refresh_rate(
                     PreviewFrame(cfg.window_id, cfg.window_title),
                     st.main_window.current_profile.refresh_rate),
                     cfg.scale), cfg.x, cfg.y), cfg.width, cfg.height)
        st1 == IF cfg.hotkey # <<>>
               THEN _register_preview_hotkey(st, env, cfg.window_id, cfg.hotkey)
               ELSE st
        st2 == [st1 EXCEPT !.frames = [fr EXCEPT ![s] = start_preview(show(frame))]]
        st3 == store_frame(st2, env, cfg.window_id, s)
    IN [st3 EXCEPT !.main_window.previews_list = Append(@, cfg.window_id)]

\* for window_config in windows: if window_config.enabled: create
RECURSIVE create_all(_, _, _)
create_all(st, env, windows) ==
    IF windows = <<>> THEN st
    ELSE create_all(IF Head(windows).enabled
                    THEN _create_preview_from_config(st, env, Head(windows))
                    ELSE st,
                    env, Tail(windows))

\* _load_current_profile, first part: the profile got becomes current_profile
\* and is shown in the settings (the spin box keeps values within 1..60)
show_profile(st, g) ==
    [st EXCEPT !.files = g.files,
               !.main_window.current_profile = g.ret,
               !.main_window.refresh_rate_spin = max(1, min(60, g.ret.refresh_rate)),
               !.main_window.always_on_top_check = g.ret.always_on_top]

\* second part: every registered panel is closed, registry and list are cleared
clear_previews(st, env) ==
    [close_all(st, env, [i \in 1..Len(st.main_window.preview_frames) |->
                            st.main_window.preview_frames[i].value])
        EXCEPT !.main_window.preview_frames = <<>>,
               !.main_window.previews_list = <<>>]

\* third part: a panel for each enabled window entry of the profile
load_windows(st, env, g) ==
    create_all(clear_previews(show_profile(st, g), env), env, g.ret.windows)

_load_current_profile(st, env) ==
    load_windows(st, env, get_current_profile(st.files, st.config, env.io))

_on_profile_changed(st, env, profile_name) ==
    IF profile_name # ""
    THEN LET r == set_setting(st.config, st.config_file, "current_profile",
                              profile_name, env.io)
         IN _load_current_profile([st EXCEPT !.config = r.config,
                                             !.config_file = r.config_file], env)
    ELSE st

\* QComboBox: findText (0: not found), setCurrentIndex with the
\* currentTextChanged signal connected to _on_profile_changed
findText(combo, text) ==
    IF \E i \in 1..Len(combo.items) : combo.items[i] = text
    THEN CHOOSE i \in 1..Len(combo.items) : combo.items[i] = text
    ELSE 0

setCurrentIndex(st, env, index) ==
    IF index # st.main_window.profile_combo.index
    THEN _on_profile_changed([st EXCEPT !.main_window.profile_combo.index = index], env,
                             st.main_window.profile_combo.items[index])
    ELSE st

\* setCurrentText on a combo box that is not editable
setCurrentText(st, env, text) ==
    LET index == findText(st.main_window.profile_combo, text) IN
    IF index >= 1 THEN setCurrentIndex(st, env, index) ELSE st

\* _load_profiles(): clear() empties the box (the signal carries '', which
\* _on_profile_changed ignores), addItems into the empty box makes the first
\* item current (the signal carries it); then the current profile of the
\* settings is looked up with findText and made current.
add_items(st, env, profiles) ==
    _on_profile_changed(
        [st EXCEPT !.main_window.profile_combo = [items |-> profiles, index |-> 1]],
        env, profiles[1])

select_current(st, env) ==
    setCurrentText(st, env, Get(st.config, "current_profile", "Default"))

_load_profiles(st, env) ==
    select_current(add_items(st, env, list_profiles(CHOOSE g \in GlobOrders(st.files) : TRUE)),
                   env)

\* self.hotkey_manager.start()
hotkey_start(st, env) ==
    [st EXCEPT !.listener = _restart_listener(st.hotkeys, st.listener, env.outcome)]

\* MainWindow.__init__ over the profile directory fs and config.json cf:
\* _setup_ui (which ends with _load_profiles), _load_current_profile, start
MainWindow_init(fs, cf, env) ==
    hotkey_start(
        _load_current_profile(
            _load_profiles(State(fs, _load_config(cf), cf, <<>>, NoListener,
                                 NoFrames, MainWindow), env),
            env),
        env)

\* _delete_profile(); reply is the answer to the question box
_delete_profile(st, env, reply) ==
    IF st.main_window.current_profile = None
       \/ st.main_window.current_profile.name = "Default"
    THEN st
    ELSE IF reply = "Yes"
    THEN LET d == delete_profile(st.files, st.main_window.current_profile.name, env.io)
         IN IF d.ret
            THEN setCurrentText(_load_profiles([st EXCEPT !.files = d.files], env),
                                env, "Default")
            ELSE st
    ELSE st

\* _add_selected_window(); item is the current item of the window list or None
_add_selected_window(st, item) ==
    IF item = None THEN st
    ELSE IF item.window_id \in DictKeys(st.main_window.preview_frames) THEN st
    ELSE _create_preview(st, item.window_id, item.window_title)

\* _remove_selected_preview(); row is the current row of the preview list, 0 for none
_remove_selected_preview(st, env, row) ==
    IF row = 0 THEN st
    ELSE LET window_id == st.main_window.previews_list[row]
             pf == st.main_window.preview_frames
         IN IF window_id \in DictKeys(pf)
            THEN closeEvent(st, env, DictValue(pf, window_id))
            ELSE st

\* _create_new_profile(); ok and name are what the input dialog returned
_create_new_profile(st, env, ok, name) ==
    IF ok /\ name # ""
    THEN LET s == save_profile(st.files, NewProfile(name), env.io)
         IN IF s.ret
            THEN setCurrentText(_load_profiles([st EXCEPT !.files = s.files], env),
                                env, name)
            ELSE [st EXCEPT !.files = s.files]
    ELSE st

\* The hotkey of _save_current_profile: the combo registered under
\* preview_<window_id>, '' when there is none
saved_hotkey(hks, window_id) ==
    IF PreviewName(window_id) \in DictKeys(hks)
    THEN DictValue(get_hotkeys(hks), PreviewName(window_id))
    ELSE <<>>

\* The WindowConfig _save_current_profile builds for one registry item
saved_window(st, item) ==
    WindowConfig(item.key, st.frames[item.value].window_title,
                 get_geometry_dict(st.frames[item.value]).x,
                 get_geometry_dict(st.frames[item.value]).y,
                 get_geometry_dict(st.frames[item.value]).width,
                 get_geometry_dict(st.frames[item.value]).height,
                 st.frames[item.value].scale_factor,
                 saved_hotkey(st.hotkeys, item.key),
                 st.frames[item.value].visible)

\* The profile object after _save_current_profile has updated it
updated_profile(st) ==
    [st.main_window.current_profile EXCEPT
        !.refresh_rate = st.main_window.refresh_rate_spin,
        !.always_on_top = st.main_window.always_on_top_check,
        !.windows = [i \in 1..Len(st.main_window.preview_frames) |->
                        saved_window(st, st.main_window.preview_frames[i])]]

\* _save_current_profile()
_save_current_profile(st, env) ==
    IF st.main_window.current_profile = None THEN st
    ELSE [st EXCEPT !.main_window.current_profile = updated_profile(st),
                    !.files = save_profile(st.files, updated_profile(st), env.io).files]

\* _toggle_preview(); row is the current row of the preview list (0: none)
_toggle_preview(st, row) ==
    IF row = 0 THEN st
    ELSE LET window_id == st.main_window.previews_list[row]
             pf == st.main_window.preview_frames
         IN IF window_id \in DictKeys(pf)
            THEN [st EXCEPT !.frames[DictValue(pf, window_id)] =
                     IF @.visible THEN hide(@) ELSE show(@)]
            ELSE st

\* MainWindow.closeEvent: _save_current_profile(), hotkey_manager.stop(),
\* then frame.close() for every panel of the registry
stop_hotkeys(st) == [st EXCEPT !.listener = hotkey_stop(@)]

registry_values(st) ==
    [i \in 1..Len(st.main_window.preview_frames) |-> st.main_window.preview_frames[i].value]

MainWindow_closeEvent(st, env) ==
    close_all(stop_hotkeys(_save_current_profile(st, env)), env,
              registry_values(_save_current_profile(st, env)))

\* _edit_preview_hotkey(); row is the current row of the preview list
\* (0: none), accepted and text are what the hotkey dialog returned
_edit_preview_hotkey(st, env, row, accepted, text) ==
    IF row = 0 THEN st
    ELSE IF accepted /\ strip(text, Whitespace) # <<>>
    THEN _register_preview_hotkey(st, env, st.main_window.previews_list[row],
                                  strip(text, Whitespace))
    ELSE st

(***************************************************************************)
(* SpecCtl: the user working the main window                               *)
(***************************************************************************)
CtrlAlt1 == <<"C", "t", "r", "l", "+", "A", "l", "t", "+", "1">>
Alt2 == <<"A", "l", "t", "+", "2">>

\* A stored profile with a binding for each of two windows, and one that names
\* window 1 in two entries.
TwoWindows ==
    Profile("beta",
            << WindowConfig(1, WindowTitle(1), 100, 100, 400, 300, 30, CtrlAlt1, TRUE),
               WindowConfig(2, WindowTitle(2), 10, 20, 320, 240, 50, Alt2, TRUE) >>,
            60, FALSE, FALSE)

SameWindowTwice ==
    Profile("Alpha",
            << WindowConfig(1, WindowTitle(1), 100, 100, 400, 300, 30, <<>>, TRUE),
               WindowConfig(1, WindowTitle(1), 10, 20, 320, 240, 50, CtrlAlt1, TRUE) >>,
            30, TRUE, FALSE)

\* The profile directories the application is started on
CtlStores ==
    { [n \in ProfileNames |-> Missing],
      [Alpha |-> Json(to_dict(SameWindowTwice)), Default |-> Missing,
       beta |-> Json(to_dict(TwoWindows))] }

\* What the surroundings may do during one handler: every write and listener
\* start works, with a displaced panel destroyed or not, or none of them works.
CtlEnvs ==
    { Env("ok", "started", TRUE), Env("ok", "started", FALSE),
      Env("open_failed", "constructor_raised", TRUE) }

CtlOutcomes == {env.outcome : env \in CtlEnvs}

\* The state variables as one record, and their next values from one
Cur == State(files, config, config_file, hotkeys, listener, frames, main_window)

Becomes(st) ==
    /\ files' = st.files
    /\ config' = st.config
    /\ config_file' = st.config_file
    /\ hotkeys' = st.hotkeys
    /\ listener' = st.listener
    /\ frames' = st.frames
    /\ main_window' = st.main_window

Is(st) ==
    /\ files = st.files
    /\ config = st.config
    /\ config_file = st.config_file
    /\ hotkeys = st.hotkeys
    /\ listener = st.listener
    /\ frames = st.frames
    /\ main_window = st.main_window

Ctl_Init ==
    /\ \E fs \in CtlStores, env \in CtlEnvs : Is(MainWindow_init(fs, Missing, env))
    /\ call = [op |-> "__init__"]

\* The items of the window list: one for each window
WindowItems == {[window_id |-> w, window_title |-> WindowTitle(w)] : w \in WindowIds}

AddSelectedWindow(item) ==
    /\ Becomes(_add_selected_window(Cur, item))
    /\ call' = [op |-> "_add_selected_window", arg |-> item]

\* The user picks row `index` of the profile selector
SelectProfile(index, env) ==
    /\ index \in 1..Len(main_window.profile_combo.items)
    /\ index # main_window.profile_combo.index
    /\ Becomes(setCurrentIndex(Cur, env, index))
    /\ call' = [op |-> "_on_profile_changed",
                arg |-> main_window.profile_combo.items[index]]

\* mousePressEvent with the right button on the shown panel in slot s
RightClickClose(s, outcome) ==
    /\ frames[s] # None
    /\ frames[s].visible
    /\ Becomes(closeEvent(Cur, Env("ok", outcome, TRUE), s))
    /\ call' = [op |-> "close", slot |-> s, again |-> FALSE]

RemoveSelectedPreview(row, outcome) ==
    /\ row \in 0..Len(main_window.previews_list)
    /\ Becomes(_remove_selected_preview(Cur, Env("ok", outcome, TRUE), row))
    /\ call' = IF row # 0
                  /\ main_window.previews_list[row] \in DictKeys(main_window.preview_frames)
               THEN [ op |-> "close", again |-> FALSE,
                      slot |-> DictValue(main_window.preview_frames,
                                         main_window.previews_list[row]) ]
               ELSE [op |-> "_remove_selected_preview", arg |-> row]

\* A second close request reaches a panel that was closed and still exists
CloseAgain(s, outcome) ==
    /\ frames[s] # None
    /\ Closed(frames[s])
    /\ s \notin Referenced(main_window)
    /\ Becomes(closeEvent(Cur, Env("ok", outcome, TRUE), s))
    /\ call' = [op |-> "close", slot |-> s, again |-> TRUE]

\* The Delete button; reply is the answer to the question box
DeleteProfileClicked(reply, env) ==
    /\ Becomes(_delete_profile(Cur, env, reply))
    /\ call' = [op |-> "_delete_profile", arg |-> reply]

SelectAnyProfile ==
    \E index \in 1..Cardinality(ProfileNames), env \in CtlEnvs : SelectProfile(index, env)

Ctl_Next ==
    \/ \E item \in WindowItems \cup {None} : AddSelectedWindow(item)
    \/ SelectAnyProfile
    \/ \E s \in FrameSlots, o \in CtlOutcomes : RightClickClose(s, o)
    \/ \E row \in 0..Len(main_window.previews_list), o \in CtlOutcomes :
         RemoveSelectedPreview(row, o)
    \/ \E s \in FrameSlots, o \in CtlOutcomes : CloseAgain(s, o)

SpecCtl == Ctl_Init /\ [][Ctl_Next]_vars

(***************************************************************************)
(* SpecDelete: profiles selected and deleted in the main window, and       *)
(* delete_profile called on its store                                      *)
(***************************************************************************)
Delete_Next ==
    \/ SelectAnyProfile
    \/ \E reply \in {"Yes", "No"}, env \in CtlEnvs : DeleteProfileClicked(reply, env)
    \/ \E n \in ProfileNames, io \in {"ok", "error"} : DeleteProfile(n, io)

SpecDelete == Ctl_Init /\ [][Delete_Next]_vars

(***************************************************************************)
(* Claims on the application controller                                    *)
(***************************************************************************)
\* C2: delete_profile("Default") returns failure in every reachable state of
\* the store and leaves every profile file and the settings unchanged; the
\* Delete button on an active Default profile is rejected and changes nothing.
C2_DefaultNeverDeleted ==
    [][ /\ (call'.op = "delete_profile" /\ call'.arg = "Default") =>
              /\ call'.ret = FALSE
              /\ UNCHANGED <<files, config, config_file, hotkeys, listener,
                             frames, main_window>>
        /\ (call'.op = "_delete_profile" /\ main_window.current_profile.name = "Default") =>
              UNCHANGED <<files, config, config_file, hotkeys, listener,
                          frames, main_window>> ]_vars

C2_Witness ==
    /\ call.op = "_delete_profile"
    /\ call.arg = "Yes"
    /\ main_window.current_profile.name = "Default"
    /\ files["Default"].kind = "json"
    /\ files["beta"].kind = "json"

\* The panel in slot s is the one the registry has for its window
Registered(mw, fr, s) ==
    /\ fr[s].window_id \in DictKeys(mw.preview_frames)
    /\ DictValue(mw.preview_frames, fr[s].window_id) = s

\* C7: the first close of a panel unregisters its binding (if present) and
\* removes its entry from the registry and from the preview list, once, and
\* removes no entry or binding of another panel; a second close request for
\* the same panel changes nothing: no unregistration, no listener restart.
C7_CloseCleansUpOnce ==
    [][ call'.op = "close" =>
          LET s == call'.slot
              w == frames[s].window_id
          IN IF call'.again
             THEN UNCHANGED <<hotkeys, listener, main_window>>
             ELSE IF Registered(main_window, frames, s)
             THEN /\ hotkeys' = IF PreviewName(w) \in DictKeys(hotkeys)
                                THEN DictDelete(hotkeys, PreviewName(w)) ELSE hotkeys
                  /\ main_window'.preview_frames = DictDelete(main_window.preview_frames, w)
                  /\ main_window'.previews_list = RemoveFirst(main_window.previews_list, w)
             ELSE /\ hotkeys' = hotkeys
                  /\ main_window'.preview_frames = main_window.preview_frames ]_vars

\* No two live panels (shown, timer running) show the same window
OneLivePanelPerWindow(fr) ==
    \A s, u \in FrameSlots :
        (Live(fr[s]) /\ Live(fr[u]) /\ fr[s].window_id = fr[u].window_id) => s = u

\* C8: in every state reached by adding windows, loading profiles, closing and
\* removing panels there is at most one live panel for a window identifier;
\* adding a window that has a panel creates none and leaves the registry as it is.
C8_OneLivePanelPerWindow ==
    [][ /\ OneLivePanelPerWindow(frames)
        /\ OneLivePanelPerWindow(frames')
        /\ ( /\ call'.op = "_add_selected_window"
             /\ call'.arg # None
             /\ call'.arg.window_id \in DictKeys(main_window.preview_frames) )
           => (frames' = frames /\ main_window' = main_window) ]_vars

(***************************************************************************)
(* SpecNew: profiles selected and created in the main window               *)
(***************************************************************************)
NewProfileClicked(ok, name, env) ==
    /\ Becomes(_create_new_profile(Cur, env, ok, name))
    /\ call' = [op |-> "_create_new_profile", ok |-> ok, arg |-> name]

New_Next ==
    \/ SelectAnyProfile
    \/ \E ok \in BOOLEAN, name \in ProfileNames \cup {""}, env \in CtlEnvs :
          NewProfileClicked(ok, name, env)

SpecNew == Ctl_Init /\ [][New_Next]_vars

\* C14: the new-profile action with a name that already names a stored
\* profile is rejected: the stored profile keeps its content, and the live
\* panels, the hotkey mapping and the settings document are unchanged.
C14_ExistingNameRejected ==
    [][ (call'.op = "_create_new_profile" /\ call'.ok /\ call'.arg # ""
         /\ files[call'.arg] # Missing) =>
            UNCHANGED <<files, config, config_file, hotkeys, frames, main_window>> ]_vars

(***************************************************************************)
(* SpecLifecycle: the calls on the HotkeyManager in any order, as the      *)
(* main window makes them (register while a profile loads, start, register *)
(* and unregister while it runs, stop, unregister while the panels close). *)
(* call.started tells whether the last of start() and stop() was start().  *)
(***************************************************************************)
Lc_Init ==
    /\ files = [n \in ProfileNames |-> Missing]
    /\ config = DefaultConfig
    /\ config_file = Missing
    /\ hotkeys = <<>>
    /\ listener = NoListener
    /\ frames = NoFrames
    /\ main_window = None
    /\ call = [op |-> "__init__", started |-> FALSE]

LcRegister(name, key_combo, callback, outcome) ==
    LET r == register_hotkey(hotkeys, listener, name, key_combo, callback, outcome) IN
    /\ hotkeys' = r.hotkeys
    /\ listener' = r.listener
    /\ call' = [op |-> "register_hotkey", started |-> call.started]
    /\ UNCHANGED <<storeVars, panelVars>>

LcUnregister(name, outcome) ==
    LET r == unregister_hotkey(hotkeys, listener, name, outcome) IN
    /\ hotkeys' = r.hotkeys
    /\ listener' = r.listener
    /\ call' = [op |-> "unregister_hotkey", started |-> call.started]
    /\ UNCHANGED <<storeVars, panelVars>>

LcStart(outcome) ==
    /\ listener' = _restart_listener(hotkeys, listener, outcome)
    /\ call' = [op |-> "start", started |-> TRUE]
    /\ UNCHANGED <<hotkeys, storeVars, panelVars>>

LcStop ==
    /\ listener' = hotkey_stop(listener)
    /\ call' = [op |-> "stop", started |-> FALSE]
    /\ UNCHANGED <<hotkeys, storeVars, panelVars>>

Lc_Next ==
    \/ \E n \in BindingNames, c \in PynputCombos, cb \in Callbacks, o \in StartOutcomes :
         LcRegister(n, c, cb, o)
    \/ \E n \in BindingNames, o \in StartOutcomes : LcUnregister(n, o)
    \/ \E o \in StartOutcomes : LcStart(o)
    \/ LcStop

SpecLifecycle == Lc_Init /\ [][Lc_Next]_vars

\* C15: a listener runs only between start() and the following stop(): none
\* runs before the first start() nor after a stop() until start() is called
\* again, whatever register and unregister calls are made outside.
C15_ListenerOnlyWhileStarted ==
    listener.state = "running" => call.started

(***************************************************************************)
(* SpecSaveLoad: windows added, panels hidden and shown, the active        *)
(* profile saved and loaded again.                                         *)
(* A save records the hotkey mapping it saw; the load that follows keeps   *)
(* that record.                                                            *)
(***************************************************************************)
\* Every save and load of a combo makes it longer (parse_key_combo wraps its
\* own output again); a save is taken while the registered combos are no
\* longer than this
MaxComboLen == 14

SaveCurrentProfile(env) ==
    /\ \A i \in 1..Len(hotkeys) : Len(hotkeys[i].value.combo) <= MaxComboLen
    /\ Becomes(_save_current_profile(Cur, env))
    /\ call' = [op |-> "_save_current_profile", io |-> env.io,
                before |-> get_hotkeys(hotkeys)]

LoadCurrentProfile(env) ==
    /\ Becomes(_load_current_profile(Cur, env))
    /\ call' = IF call.op = "_save_current_profile" /\ call.io = "ok"
               THEN [op |-> "_load_current_profile", saved |-> TRUE,
                     before |-> call.before]
               ELSE [op |-> "_load_current_profile", saved |-> FALSE, before |-> <<>>]

TogglePreview(row) ==
    /\ Becomes(_toggle_preview(Cur, row))
    /\ call' = [op |-> "_toggle_preview", arg |-> row]

SaveLoad_Next ==
    \/ \E item \in WindowItems : AddSelectedWindow(item)
    \/ \E row \in 0..Len(main_window.previews_list) : TogglePreview(row)
    \/ \E env \in CtlEnvs : SaveCurrentProfile(env)
    \/ \E env \in CtlEnvs : LoadCurrentProfile(env)

SpecSaveLoad == Ctl_Init /\ [][SaveLoad_Next]_vars

\* C16: saving the active profile and then loading it restores the hotkey
\* mapping: every binding preview_<id> there was before the save is there
\* after the load, under the same name and with the same combo.
C16_SaveLoadRestoresHotkeys ==
    (call.op = "_load_current_profile" /\ call.saved) =>
        \A i \in 1..Len(call.before) :
            /\ call.before[i].key \in DictKeys(hotkeys)
            /\ DictValue(get_hotkeys(hotkeys), call.before[i].key) = call.before[i].value

(***************************************************************************)
(* Claims on the current profile of the store                              *)
(***************************************************************************)
\* C17: get_current_profile() never changes the stored content of a profile
\* that exists and loads: when current_profile names a missing or malformed
\* profile, a stored Default that loads keeps its window entries and settings.
C17_ValidDefaultKept ==
    [][ (call'.op = "get_current_profile" /\ load_profile(files, "Default") # None) =>
            files'["Default"] = files["Default"] ]_vars

(***************************************************************************)
(* Claims on loading and saving the active profile                         *)
(***************************************************************************)
\* A step that loads a profile into the main window
LoadStep == call'.op = "_load_current_profile"

\* The enabled entries of a window list that carry a hotkey
WithHotkey(windows) ==
    {i \in 1..Len(windows) : windows[i].enabled /\ windows[i].hotkey # <<>>}

\* C18: on a profile load every panel there was has its timer stopped, its
\* binding unregistered and its registry entry removed before the first
\* panel of the new profile is created: after the clearing part of the load
\* no panel is open and the registry and the mapping are empty; after the
\* load no panel of the previous profile is open and every binding is one
\* of the new profile.
C18_OldPanelsClearedFirst ==
    /\ [][ LoadStep =>
            /\ \A s \in FrameSlots :
                  (frames[s] # None /\ ~Closed(frames[s])
                   /\ s \notin Referenced(main_window)) =>
                      (frames'[s] = None \/ Closed(frames'[s]))
            /\ \A i \in 1..Len(hotkeys') :
                  \E j \in WithHotkey(main_window'.current_profile.windows) :
                      hotkeys'[i].key =
                          PreviewName(main_window'.current_profile.windows[j].window_id)
         ]_vars
    /\ [][ \A env \in CtlEnvs :
            LET cleared == clear_previews(Cur, env) IN
            /\ cleared.hotkeys = <<>>
            /\ cleared.main_window.preview_frames = <<>>
            /\ \A s \in FrameSlots :
                  cleared.frames[s] = None \/ Closed(cleared.frames[s]) ]_vars

\* The panel f is the running panel of the window entry w
PanelOf(f, w) ==
    /\ f.window_id = w.window_id
    /\ f.update_timer.active
    /\ f.x = w.x /\ f.y = w.y /\ f.width = w.width /\ f.height = w.height
    /\ f.scale_factor = max(10, min(100, w.scale))

EntryOf(w, f, hks) ==
    /\ w.window_id = f.window_id /\ w.window_title = f.window_title
    /\ w.x = f.x /\ w.y = f.y /\ w.width = f.width /\ w.height = f.height
    /\ w.scale = f.scale_factor
    /\ w.enabled = f.visible
    /\ \A k \in 1..Len(hks) :
          hks[k].key = PreviewName(f.window_id) => w.hotkey = hks[k].value.combo
    /\ (\A k \in 1..Len(hks) : hks[k].key # PreviewName(f.window_id)) => w.hotkey = <<>>

\* C20: after a save the window list of the active profile has exactly one
\* entry for each live panel and no other, each with the panel's id, title,
\* position, size and scale, enabled as the panel is visible, and the combo
\* registered under preview_<id> as hotkey (empty when there is none); this
\* list goes to the profile store with the refresh rate and the always-on-top
\* setting of the main window.
C20_SaveRecordsLivePanels ==
    [][ call'.op = "_save_current_profile" =>
        LET saved == main_window'.current_profile
            open == {s \in FrameSlots : frames[s] # None /\ ~Closed(frames[s])}
        IN  /\ Len(saved.windows) = Cardinality(open)
            /\ \A s \in open : \E i \in 1..Len(saved.windows) :
                  EntryOf(saved.windows[i], frames[s], hotkeys)
            /\ \A i \in 1..Len(saved.windows) : \E s \in open :
                  EntryOf(saved.windows[i], frames[s], hotkeys)
            /\ saved.refresh_rate = main_window.refresh_rate_spin
            /\ saved.always_on_top = main_window.always_on_top_check
            /\ call'.io = "ok" => files'[saved.name] = Json(to_dict(saved))
      ]_vars

(***************************************************************************)
(* SpecLife: the life of one panel: shown, started, stopped, its rate set, *)
(* its timer firing, clicked and closed.  call.closed is the list of the   *)
(* closed notifications the panel has emitted so far.                      *)
(***************************************************************************)
\* Close events followed for one panel
MaxCloses == 2

Life_Init ==
    /\ files = [n \in ProfileNames |-> Missing]
    /\ config = DefaultConfig
    /\ config_file = Missing
    /\ hotkeys = <<>>
    /\ listener = NoListener
    /\ \E w \in WindowIds :
         frames = [NoFrames EXCEPT ![1] = PreviewFrame(w, WindowTitle(w))]
    /\ main_window = None
    /\ call = [op |-> "__init__", closed |-> <<>>, emitted |-> <<>>]

\* A call on the panel that emits nothing
LifeCall(op, f) ==
    /\ frames' = [frames EXCEPT ![1] = f]
    /\ call' = [op |-> op, closed |-> call.closed, emitted |-> <<>>]
    /\ UNCHANGED <<storeVars, hotkeyVars, main_window>>

LifeShow == LifeCall("show", show(frames[1]))
LifeStart == LifeCall("start_preview", start_preview(frames[1]))
LifeStop == LifeCall("stop_preview", stop_preview(frames[1]))

LifeSetRefreshRate(fps) ==
    /\ frames' = [frames EXCEPT ![1] = set_refresh_rate(@, fps)]
    /\ call' = [op |-> "set_refresh_rate", arg |-> fps, closed |-> call.closed,
                emitted |-> <<>>]
    /\ UNCHANGED <<storeVars, hotkeyVars, main_window>>

\* update_timer.timeout: fires while the timer is active, calls request_update
LifeTimeout ==
    /\ frames[1].update_timer.active
    /\ call' = [op |-> "request_update", closed |-> call.closed, emitted |-> <<>>]
    /\ UNCHANGED <<storeVars, hotkeyVars, panelVars>>

\* An event handler of the panel that may emit
LifeEvent(op, r) ==
    /\ Len(call.closed) + Len(r.emitted) <= MaxCloses
    /\ frames' = [frames EXCEPT ![1] = r.frame]
    /\ call' = [op |-> op, emitted |-> r.emitted,
                closed |-> call.closed \o
                           SelectSeq(r.emitted, LAMBDA e : e.signal = "closed")]
    /\ UNCHANGED <<storeVars, hotkeyVars, main_window>>

\* A mouse press on the shown panel
LifeMousePress(button, on_title) ==
    /\ frames[1].visible
    /\ LifeEvent("mousePressEvent", mousePressEvent(frames[1], button, on_title))

\* frame.close() called by the program
LifeClose == LifeEvent("close", frame_closeEvent(frames[1]))

Life_Next ==
    \/ LifeShow
    \/ LifeStart
    \/ LifeStop
    \/ \E fps \in FpsInputs : LifeSetRefreshRate(fps)
    \/ LifeTimeout
    \/ \E button \in {"LeftButton", "RightButton", "MiddleButton"}, on_title \in BOOLEAN :
          LifeMousePress(button, on_title)
    \/ LifeClose

SpecLife == Life_Init /\ [][Life_Next]_vars

\* C21: a panel emits its closed notification, with its own window id, once
\* over its life, closed by a right click or by the program and when close
\* is requested more than once; its timer is stopped when it is emitted.
C21_ClosedEmittedOnce ==
    /\ Len(call.closed) <= 1
    /\ \A i \in 1..Len(call.closed) :
          call.closed[i].arg = frames[1].window_id /\ ~call.closed[i].timer_active

\* C26: a panel is Stopped after construction; start_preview makes it Running
\* with a timer interval of 1000 div frame rate milliseconds, between 16 and
\* 1000; stop_preview makes it Stopped; set_refresh_rate while Running re-arms
\* the timer at the interval of the new clamped rate and keeps it Running,
\* while Stopped it changes the rate and does not start the timer; refresh
\* requests are issued while the panel is Running only.
C26_TimerFollowsLifecycle ==
    [][ /\ call.op = "__init__" => ~frames[1].update_timer.active
        /\ frames[1].refresh_rate >= 1
        /\ call'.op = "start_preview" =>
              /\ frames'[1].update_timer.active
              /\ frames'[1].update_timer.interval * frames[1].refresh_rate <= 1000
              /\ (frames'[1].update_timer.interval + 1) * frames[1].refresh_rate > 1000
              /\ frames'[1].update_timer.interval \in 16..1000
        /\ call'.op = "stop_preview" => ~frames'[1].update_timer.active
        /\ call'.op = "set_refresh_rate" =>
              /\ frames'[1].refresh_rate = Clamped(call'.arg, 1, 60)
              /\ frames'[1].update_timer.active = frames[1].update_timer.active
              /\ frames[1].update_timer.active =>
                    /\ frames'[1].update_timer.interval * frames'[1].refresh_rate <= 1000
                    /\ (frames'[1].update_timer.interval + 1) * frames'[1].refresh_rate > 1000
              /\ ~frames[1].update_timer.active =>
                    frames'[1].update_timer = frames[1].update_timer
        /\ call'.op = "request_update" => frames[1].update_timer.active
      ]_vars

\* C26 witness: a rate above the range set on a running panel re-armed the
\* timer at 16 ms.
C26_Witness ==
    /\ call.op = "set_refresh_rate"
    /\ call.arg > 60
    /\ frames[1].update_timer = [active |-> TRUE, interval |-> 16]

(***************************************************************************)
(* Claims on the result of a registration and on triggers                  *)
(***************************************************************************)
\* C22: register_hotkey returns true only when the binding is stored and the
\* listener runs with the new binding set afterwards; when the listener
\* cannot be started with that set it returns false.
C22_TrueOnlyWhenListening ==
    (call.op = "register_hotkey" /\ call.ret) =>
        /\ call.arg \in DictKeys(hotkeys)
        /\ listener.state = "running"
        /\ listener.map = build_hotkey_map(hotkeys)

\* SpecTrigger: the bindings the main window registers (preview_<id> with the
\* activation callback of that window), unregistered and triggered
Trigger_Next ==
    \/ \E w \in WindowIds, c \in PynputCombos, o \in StartOutcomes :
         RegisterHotkey(PreviewName(w), c, ActivateCallback(w), o)
    \/ \E w \in WindowIds, o \in StartOutcomes : UnregisterHotkey(PreviewName(w), o)
    \/ \E c \in PynputCombos, cb_returns \in BOOLEAN : HotkeyTrigger(c, cb_returns)

SpecTrigger == Hk_Init /\ [][Trigger_Next]_vars

\* C23: a trigger of a registered combo invokes the callback of a binding of
\* that combo once and then emits hotkey_triggered with the name of that
\* binding: the notification does not precede the callback, is not emitted
\* without it, and does not carry the name of another binding.
C23_CallbackThenNotification ==
    call.op = "trigger" =>
        /\ Len(call.events) >= 1
        /\ call.events[1].event = "callback"
        /\ \A k \in 2..Len(call.events) : call.events[k].event = "hotkey_triggered"
        /\ Len(call.events) <= 2
        /\ call.cb_returns => Len(call.events) = 2
        /\ \E i \in 1..Len(hotkeys) :
              /\ hotkeys[i].value.combo = call.arg
              /\ hotkeys[i].value.callback = call.events[1].cb
              /\ \A k \in 2..Len(call.events) : call.events[k].name = hotkeys[i].key

\* C23 witness: with two combos in the listener, one of them of a binding
\* with another name and another callback, the trigger ran the callback and
\* emitted the name.
C23_Witness ==
    /\ call.op = "trigger"
    /\ Len(hotkeys) >= 2
    /\ Len(listener.map) >= 2
    /\ Len(call.events) = 2
    /\ \E i \in 1..Len(hotkeys) : hotkeys[i].key # call.events[2].name
    /\ \E i \in 1..Len(hotkeys) : hotkeys[i].value.callback # call.events[1].cb

(***************************************************************************)
(* SpecStartup: the main window constructed on a profile directory and a   *)
(* settings document, then profiles selected, created and deleted.  The    *)
(* call of the initial state tells what the settings named as current      *)
(* profile when the application started and whether that profile loads.    *)
(***************************************************************************)
StartupConfigFiles ==
    {Missing} \cup {Json([DefaultConfig EXCEPT !.current_profile = n]) : n \in ProfileNames}

Startup_Init ==
    \E fs \in CtlStores, cf \in StartupConfigFiles, env \in CtlEnvs :
        /\ Is(MainWindow_init(fs, cf, env))
        /\ call = [ op |-> "__init__", io |-> env.io,
                    found |-> Get(_load_config(cf), "current_profile", "Default"),
                    loads |-> load_profile(fs, Get(_load_config(cf), "current_profile",
                                                   "Default")) # None ]

Startup_Next ==
    \/ SelectAnyProfile
    \/ \E ok \in BOOLEAN, name \in ProfileNames \cup {""}, env \in CtlEnvs :
          NewProfileClicked(ok, name, env)
    \/ \E reply \in {"Yes", "No"}, env \in CtlEnvs : DeleteProfileClicked(reply, env)

SpecStartup == Startup_Init /\ [][Startup_Next]_vars

\* C24: populating the profile selector does not change the current_profile
\* of the settings: after startup, when the profile the settings name as
\* current exists, that profile is the one loaded and the settings still
\* name it.
C24_StartupKeepsCurrentProfile ==
    (call.op = "__init__" /\ call.loads) =>
        /\ config["current_profile"] = call.found
        /\ main_window.current_profile.name = call.found

(***************************************************************************)
(* SpecExit: windows added, panels hidden and shown, then the application  *)
(* closed; nothing happens after the close.                                *)
(***************************************************************************)
CloseApplication(env) ==
    /\ Becomes(MainWindow_closeEvent(Cur, env))
    /\ call' = [op |-> "closeEvent", io |-> env.io]

\* The main window is open
Open == call.op # "closeEvent"

Exit_Next ==
    \/ \E item \in WindowItems : Open /\ AddSelectedWindow(item)
    \/ \E row \in 0..Len(main_window.previews_list) : Open /\ TogglePreview(row)
    \/ \E s \in FrameSlots, o \in CtlOutcomes : Open /\ RightClickClose(s, o)
    \/ \E env \in CtlEnvs : Open /\ CloseApplication(env)

SpecExit == Ctl_Init /\ [][Exit_Next]_vars

\* C25: on application close the active profile is saved before any panel is
\* torn down: the stored profile has an entry for every panel that was live
\* when the close began; after the close every panel is Stopped and out of
\* the registry, and the hotkey mapping is empty.
C25_SavedThenTornDown ==
    [][ call'.op = "closeEvent" =>
        /\ call'.io = "ok" =>
              /\ files'[main_window'.current_profile.name]
                    = Json(to_dict(main_window'.current_profile))
              /\ \A s \in FrameSlots :
                    (frames[s] # None /\ ~Closed(frames[s])) =>
                       \E i \in 1..Len(main_window'.current_profile.windows) :
                          EntryOf(main_window'.current_profile.windows[i], frames[s], hotkeys)
        /\ \A s \in FrameSlots : frames'[s] = None \/ ~frames'[s].update_timer.active
        /\ main_window'.preview_frames = <<>>
        /\ hotkeys' = <<>>
      ]_vars

(***************************************************************************)
(* SpecEdit: windows added, hotkeys edited, panels closed, the active      *)
(* profile loaded again                                                    *)
(***************************************************************************)
\* What the user may leave in the hotkey dialog
DialogTexts == {<<>>, <<" ">> \o Alt2}

EditPreviewHotkey(row, accepted, text, outcome) ==
    /\ Becomes(_edit_preview_hotkey(Cur, Env("ok", outcome, TRUE), row, accepted, text))
    /\ call' = [op |-> "_edit_preview_hotkey", arg |-> row]

Edit_Next ==
    \/ \E item \in WindowItems : AddSelectedWindow(item)
    \/ \E row \in 0..Len(main_window.previews_list), accepted \in BOOLEAN,
          text \in DialogTexts, o \in CtlOutcomes :
          EditPreviewHotkey(row, accepted, text, o)
    \/ \E s \in FrameSlots, o \in CtlOutcomes : RightClickClose(s, o)
    \/ \E env \in CtlEnvs : LoadCurrentProfile(env)

SpecEdit == Ctl_Init /\ [][Edit_Next]_vars

\* C27: between UI events every binding of the hotkey mapping is named
\* preview_<id> for a window id that has a live panel, and a live panel has
\* at most one binding; no binding outlives its panel.
C27_BindingsHaveLivePanels ==
    /\ \A i \in 1..Len(hotkeys) :
          \E s \in FrameSlots :
             /\ frames[s] # None /\ ~Closed(frames[s])
             /\ hotkeys[i].key = PreviewName(frames[s].window_id)
    /\ \A i, j \in 1..Len(hotkeys) : hotkeys[i].key = hotkeys[j].key => i = j

====
